---- MODULE Spec2Model ----
(***************************************************************************)
(* Draftly-AI: the OpenRouter completion client of src/lib/ai-utils.ts.    *)
(*                                                                         *)
(* Every top-level call (generateText, generateObject) is an async         *)
(* function: its local variables are indexed by the call, and one action   *)
(* of the model is the code between two await points of one call.          *)
(***************************************************************************)
EXTENDS Integers, Sequences, FiniteSets, TLC

\* ------------------------------------------------------------------------
\* Bounds of the model
\* ------------------------------------------------------------------------
NumCalls == 2          \* top-level calls the process may hold
MaxCalls == 2          \* tool calls carried by one assistant reply
MaxN     == 11         \* largest n of a stepCountIs(n) the caller passes
MaxNodes == 4          \* nodes of a schema handed to zodToJsonSchema

\* ------------------------------------------------------------------------
\* Program constants
\* ------------------------------------------------------------------------
MaxSteps == 10         \* "Safety limit": if (stepCount >= 10)

Calls == 1..NumCalls

Undefined == "<undefined>"     \* JavaScript's undefined, in a string slot

\* JavaScript truthiness of an optional string (if (system) ...)
TruthyString(s) == s /= Undefined /\ s /= ""

\* ------------------------------------------------------------------------
\* JSON values, JSON.parse and JSON.stringify on the texts the model uses
\* ------------------------------------------------------------------------
JStr(s)  == [type |-> "string", str |-> s]
JNum(n)  == [type |-> "number", num |-> n]
JObj(k, v) == [type |-> "object", key |-> k, val |-> v]
JUndef   == [type |-> "undefined"]

\* Texts the endpoint may put where JSON is expected
JsonTexts == { "{\"q\":\"x\"}", "{\"name\":\"X\"}", "{\"name\":5}" }
BadTexts  == { "{q:", "not json" }

\* JSON.parse: the parsed value, or a SyntaxError
JSONParse(s) ==
  CASE s = "{\"q\":\"x\"}"    -> [ok |-> TRUE, value |-> JObj("q", JStr("x"))]
    [] s = "{\"name\":\"X\"}" -> [ok |-> TRUE, value |-> JObj("name", JStr("X"))]
    [] s = "{\"name\":5}"     -> [ok |-> TRUE, value |-> JObj("name", JNum(5))]
    [] OTHER                  -> [ok |-> FALSE, value |-> JUndef]

\* JSON.stringify of a tool result (undefined stringifies to undefined)
JSONStringify(v) ==
  CASE v.type = "string" -> "\"" \o v.str \o "\""
    [] v.type = "number" -> ToString(v.num)
    [] v.type = "object" ->
         "{\"" \o v.key \o "\":" \o
           (IF v.val.type = "string" THEN "\"" \o v.val.str \o "\""
                                     ELSE ToString(v.val.num)) \o "}"
    [] OTHER             -> Undefined

\* ------------------------------------------------------------------------
\* The caller's options
\* ------------------------------------------------------------------------
Systems == { Undefined, "", "be brief" }
Prompts == { "hello" }

\* tools?: Record<string, any>.  given = FALSE is an absent tools option;
\* names are the own keys of the object literal; returns is what every
\* executor resolves to.
ToolSets ==
  { [given |-> FALSE, names |-> {}, returns |-> JUndef],
    [given |-> TRUE, names |-> {"search"}, returns |-> JStr("sunny")] }

\* Properties every object literal inherits from Object.prototype
ObjectPrototype == { "constructor", "toString" }

\* tools?.[toolName]: "tool" for a registered tool, "inherited" for a member
\* of Object.prototype (truthy, without an execute method), else "undefined"
Lookup(tools, toolName) ==
  IF ~tools.given THEN "undefined"
  ELSE IF toolName \in tools.names THEN "tool"
  ELSE IF toolName \in ObjectPrototype THEN "inherited"
  ELSE "undefined"

\* stepCountIs(count): the predicate (currentCount) => currentCount >= count
stepCountIs(count) == [kind |-> "stepCountIs", count |-> count]

\* stopWhen?: absent, a stepCountIs(n), or any other predicate of the caller
StopWhens ==
  { [kind |-> "none", count |-> 0], [kind |-> "any", count |-> 0] }
    \cup { stepCountIs(n) : n \in 0..MaxN }

\* stepCountIs comparing with > instead of >=
StopWhenResultsStrict(stopWhen, currentCount) ==
  CASE stopWhen.kind = "stepCountIs" -> { currentCount > stopWhen.count }
    [] stopWhen.kind = "any"         -> BOOLEAN
    [] OTHER                         -> { FALSE }

\* The values options.stopWhen(stepCount) may return
StopWhenResults(stopWhen, currentCount) ==
  CASE stopWhen.kind = "stepCountIs" -> { currentCount >= stopWhen.count }
    [] stopWhen.kind = "any"         -> BOOLEAN
    [] OTHER                         -> { FALSE }

TextOptions ==
  [ system : Systems, prompt : Prompts, tools : ToolSets, stopWhen : StopWhens ]

\* schema: z.object({ <key>: z.string() | z.number() })
Schemas == [ key : {"name"}, kind : {"string", "number"} ]

\* a value of the wrong primitive type converted instead of rejected
SchemaParseCoerce(schema, v) ==
  IF v.type = "object" /\ v.key = schema.key
    THEN [ok |-> TRUE,
          value |-> IF v.val.type = schema.kind THEN v
                    ELSE IF schema.kind = "string"
                      THEN JObj(v.key, JStr(ToString(v.val.num)))
                      ELSE JObj(v.key, JNum(0))]
    ELSE [ok |-> FALSE, value |-> JUndef]

\* schema.parse(parsed): the validated value, or a ZodError
SchemaParse(schema, v) ==
  IF v.type = "object" /\ v.key = schema.key /\ v.val.type = schema.kind
    THEN [ok |-> TRUE, value |-> v]
    ELSE [ok |-> FALSE, value |-> JUndef]

ObjectOptions == [ system : Systems, prompt : Prompts, schema : Schemas ]

\* ------------------------------------------------------------------------
\* Schemas handed to zodToJsonSchema
\* ------------------------------------------------------------------------
\* Keys of a z.object, in the order the shape declares them
FieldNames == << "title", "body", "author", "year", "tags" >>

\* def.minLength / def.maxLength of a ZodArray: null, or {value}
NoLength == [given |-> FALSE, value |-> 0]
Length(n) == [given |-> TRUE, value |-> n]
ArrayLengths == { [minLength |-> NoLength, maxLength |-> NoLength],
                  [minLength |-> Length(1), maxLength |-> Length(3)] }

\* Nodes without children.  "any" (z.any()) and "date" (z.date()) are
\* classes zodToJsonSchema has no instanceof test for.
SchemaLeaves ==
  { [kind |-> k] : k \in {"string", "number", "boolean", "any", "date"} }
    \cup { [kind |-> "enum", values |-> << "a", "b" >>] }

RECURSIVE SchemasOfSize(_), ShapesOfSize(_, _)

\* The shapes whose field schemas have n nodes in all, keyed from
\* FieldNames[i] on
ShapesOfSize(n, i) ==
  IF n = 0 THEN { << >> }
  ELSE UNION { { << [key |-> FieldNames[i], value |-> v] >> \o rest :
                   v \in SchemasOfSize(m), rest \in ShapesOfSize(n - m, i + 1) } :
               m \in 1..n }

\* The schemas of exactly n nodes
SchemasOfSize(n) ==
  IF n = 0 THEN {}
  ELSE (IF n = 1 THEN SchemaLeaves ELSE {})
         \cup { [kind |-> "optional", innerType |-> t] : t \in SchemasOfSize(n - 1) }
         \cup { [kind |-> "array", type |-> t, minLength |-> l.minLength,
                 maxLength |-> l.maxLength] :
                  t \in SchemasOfSize(n - 1), l \in ArrayLengths }
         \cup { [kind |-> "object", shape |-> sh] : sh \in ShapesOfSize(n - 1, 1) }

SchemaNodes == UNION { SchemasOfSize(n) : n \in 1..MaxNodes }

\* value.isOptional(): whether the schema accepts undefined
isOptional(schema) == schema.kind \in {"optional", "any"}

\* every key pushed, without the isOptional test
RequiredKeysAll(shape) ==
  [ i \in 1..Len(shape) |-> shape[i].key ]

\* const required = []; for each entry: if (!value.isOptional()) push(key)
RequiredKeys(shape) ==
  LET Kept(f) == ~isOptional(f.value)
      kept    == SelectSeq(shape, Kept)
  IN  [ i \in 1..Len(kept) |-> kept[i].key ]

\* additionalProperties left out when nothing is required
ObjectDocumentLoose(properties, required) ==
  IF Len(required) > 0
    THEN [ type |-> "object", properties |-> properties,
           required |-> required, additionalProperties |-> FALSE ]
    ELSE [ type |-> "object", properties |-> properties ]

\* return { type: "object", properties, required: required.length > 0 ?
\* required : undefined, additionalProperties: false }.  A key whose value
\* is undefined is no key of the document: JSON.stringify leaves it out.
ObjectDocument(properties, required) ==
  IF Len(required) > 0
    THEN [ type |-> "object", properties |-> properties,
           required |-> required, additionalProperties |-> FALSE ]
    ELSE [ type |-> "object", properties |-> properties,
           additionalProperties |-> FALSE ]

\* return { type: "array", items, minItems: def.minLength?.value,
\* maxItems: def.maxLength?.value }
ArrayDocument(items, minLength, maxLength) ==
  CASE minLength.given /\ maxLength.given ->
         [ type |-> "array", items |-> items,
           minItems |-> minLength.value, maxItems |-> maxLength.value ]
    [] minLength.given /\ ~maxLength.given ->
         [ type |-> "array", items |-> items, minItems |-> minLength.value ]
    [] ~minLength.given /\ maxLength.given ->
         [ type |-> "array", items |-> items, maxItems |-> maxLength.value ]
    [] OTHER -> [ type |-> "array", items |-> items ]

RECURSIVE zodToJsonSchema(_)

\* function zodToJsonSchema(schema): the instanceof chain.  The schemas
\* carry no description, so the description keys are undefined and left out.
zodToJsonSchema(schema) ==
  CASE schema.kind = "object" ->
         ObjectDocument(
           [ i \in 1..Len(schema.shape) |->
               [ key |-> schema.shape[i].key,
                 value |-> zodToJsonSchema(schema.shape[i].value) ] ],
           RequiredKeys(schema.shape))
    [] schema.kind = "string"   -> [ type |-> "string" ]
    [] schema.kind = "number"   -> [ type |-> "number" ]
    [] schema.kind = "boolean"  -> [ type |-> "boolean" ]
    [] schema.kind = "array"    ->
         ArrayDocument(zodToJsonSchema(schema.type), schema.minLength, schema.maxLength)
    [] schema.kind = "enum"     -> [ type |-> "string", enum |-> schema.values ]
    [] schema.kind = "optional" -> zodToJsonSchema(schema.innerType)
    [] OTHER                    -> [ type |-> "string" ]

NoDocument == [ type |-> "none" ]

\* ------------------------------------------------------------------------
\* The endpoint
\* ------------------------------------------------------------------------
ToolNames   == { "search", "lookup", "constructor" }
ArgTexts    == { "{\"q\":\"x\"}", "{q:" }
Contents    == { "", "Done.", "  ", " Draftly " }

\* String.prototype.trim on the texts of the model
Trim(s) ==
  CASE s = "  "        -> ""
    [] s = " Draftly " -> "Draftly"
    [] OTHER           -> s
ErrorBodies == { "rate limited" }

\* function: {name, arguments} of one requested tool call
Functions == [ name : ToolNames, arguments : ArgTexts ]

\* The tool-calling reply an endpoint keeps giving: content and the calls
ToolReplies ==
  [ content : { "Let me check." },
    calls   : UNION { [1..n -> Functions] : n \in 1..MaxCalls } ]

\* Ids the endpoint gives the calls of its k-th reply
CallId(k, j) == "call_" \o ToString(k) \o "_" \o ToString(j)

\* The assistant message of the k-th reply when it requests the calls
ToolCallMessage(reply, k) ==
  [ role |-> "assistant", content |-> reply.content,
    has_tool_calls |-> TRUE,
    tool_calls |-> [ j \in 1..Len(reply.calls) |->
                       [ id |-> CallId(k, j), function |-> reply.calls[j] ] ] ]

\* Assistant messages that request nothing: tool_calls absent, with any
\* of the contents, or an empty array
FinalMessages ==
  { [ role |-> "assistant", content |-> t, has_tool_calls |-> FALSE,
      tool_calls |-> << >> ] : t \in Contents }
    \cup { [ role |-> "assistant", content |-> t, has_tool_calls |-> TRUE,
             tool_calls |-> << >> ] : t \in { "", "Done." } }

\* choice.message of the k-th successful response
ReplyMessages(ep, k) == { ToolCallMessage(ep.toolReply, k) } \cup FinalMessages

Message(role, content) ==
  [ role |-> role, content |-> content ]

\* the call's id and the tool's name in each other's place
ToolMessageSwapped(content, id, name) ==
  [ role |-> "tool", content |-> content, tool_call_id |-> name, name |-> id ]

\* { role: "tool", content: JSON.stringify(result), tool_call_id, name }
ToolMessage(content, id, name) ==
  [ role |-> "tool", content |-> content, tool_call_id |-> id, name |-> name ]


\* ------------------------------------------------------------------------
\* State
\* ------------------------------------------------------------------------
VARIABLES
  op,          \* op[c]: the function call c runs, or "idle"
  options,     \* options[c]: the options the caller passed
  endpoint,    \* endpoint[c]: what the endpoint answers call c
  messages,    \* messages[c]: the transcript
  stepCount,   \* stepCount[c]
  shouldStop,  \* shouldStop[c]
  pc,          \* pc[c]: where call c is suspended
  callIdx,     \* callIdx[c]: position of the for loop in tool_calls
  inflight,    \* inflight[c]: awaited operations not yet settled
  requests,    \* requests[c]: HTTP requests sent so far
  response,    \* response[c]: outcome of the last settled fetch
  stopLog,     \* stopLog[c]: the calls of options.stopWhen, arg and result
  execLog,     \* execLog[c]: ids of the calls whose executor was invoked
  text,        \* text[c]: the text generateText returned
  object,      \* object[c]: the object generateObject returned
  error,       \* error[c]: message of the error the call threw
  sent,        \* sent[c]: messages in the body of the last request
  jsonSchema,  \* jsonSchema[c]: the document zodToJsonSchema returned
  projectName  \* projectName[c]: what generateProjectName returned

vars == << op, options, endpoint, messages, stepCount, shouldStop, pc,
           callIdx, inflight, requests, response, stopLog, execLog, text,
           object, error, sent, jsonSchema, projectName >>

NoOptions  == [ system |-> Undefined, prompt |-> "", tools |-> [given |-> FALSE, names |-> {}, returns |-> JUndef],
                stopWhen |-> [kind |-> "none", count |-> 0] ]
NoResponse == [ status |-> "none", body |-> "" ]
NoEndpoint == [ toolReply |-> [content |-> "", calls |-> << >>] ]

\* the prompt pushed before the system message
InitialMessagesUserFirst(o) ==
  << Message("user", o.prompt) >> \o
    (IF TruthyString(o.system) THEN << Message("system", o.system) >> ELSE << >>)

\* const messages = []; if (system) push system; push user prompt
InitialMessages(o) ==
  (IF TruthyString(o.system) THEN << Message("system", o.system) >> ELSE << >>)
    \o << Message("user", o.prompt) >>

Endpoints == [ toolReply : ToolReplies ]

\* generateText({model, system: `...`, prompt}) of generateProjectName:
\* no tools, no stopWhen
ProjectNameOptions(prompt) ==
  [ system |-> "You are an AI assistant that generates very very short project names based on the user's prompt.",
    prompt |-> prompt,
    tools |-> [given |-> FALSE, names |-> {}, returns |-> JUndef],
    stopWhen |-> [kind |-> "none", count |-> 0] ]

\* Where a call is suspended once it has entered f and set up its locals
Entry(f) ==
  CASE f \in {"generateText", "generateProjectName"} -> "loop"
    [] f = "generateObject"                          -> "send"
    [] f = "zodToJsonSchema"                         -> "compile"
    [] OTHER                                         -> "idle"

NotCalled == [ f |-> "idle", o |-> NoOptions, ep |-> NoEndpoint ]

\* The state in which every call c has entered setup[c].f with options
\* setup[c].o, is past the setup of its locals and, in the functions that
\* send requests, is about to send its first
StartCalls(setup) ==
  /\ op         = [c \in Calls |-> setup[c].f]
  /\ options    = [c \in Calls |-> setup[c].o]
  /\ endpoint   = [c \in Calls |-> setup[c].ep]
  /\ messages   = [c \in Calls |->
                     IF setup[c].f \in {"generateText", "generateProjectName"}
                       THEN InitialMessages(setup[c].o) ELSE << >>]
  /\ stepCount  = [c \in Calls |-> 0]
  /\ shouldStop = [c \in Calls |-> FALSE]
  /\ pc         = [c \in Calls |-> Entry(setup[c].f)]
  /\ callIdx    = [c \in Calls |-> 0]
  /\ inflight   = [c \in Calls |-> {}]
  /\ requests   = [c \in Calls |-> 0]
  /\ response   = [c \in Calls |-> NoResponse]
  /\ stopLog    = [c \in Calls |-> << >>]
  /\ execLog    = [c \in Calls |-> << >>]
  /\ text       = [c \in Calls |-> Undefined]
  /\ object     = [c \in Calls |-> JUndef]
  /\ error      = [c \in Calls |-> ""]
  /\ sent       = [c \in Calls |-> << >>]
  /\ jsonSchema = [c \in Calls |-> NoDocument]
  /\ projectName = [c \in Calls |-> Undefined]

\* Call 1 has entered f with options o; the other calls are not made
Start(f, o, ep) ==
  StartCalls([c \in Calls |-> IF c = 1 THEN [f |-> f, o |-> o, ep |-> ep]
                                       ELSE NotCalled])

Init ==
  \/ \E o \in TextOptions, ep \in Endpoints : Start("generateText", o, ep)
  \/ \E o \in ObjectOptions : Start("generateObject", o, NoEndpoint)
  \/ \E schema \in SchemaNodes :
       Start("zodToJsonSchema", [schema |-> schema], NoEndpoint)
  \/ \E prompt \in Prompts, ep \in Endpoints :
       Start("generateProjectName", ProjectNameOptions(prompt), ep)

LastMessage(c) == messages[c][Len(messages[c])]

\* the test without its length check
HasToolCallsNoLength(m) == m.has_tool_calls

\* assistantMessage.tool_calls && assistantMessage.tool_calls.length > 0
HasToolCalls(m) == m.has_tool_calls /\ Len(m.tool_calls) > 0

\* The assistant message whose tool calls the for loop is walking
CurrentAssistant(c) ==
  LET idxs == { i \in 1..Len(messages[c]) : messages[c][i].role = "assistant" }
  IN  messages[c][CHOOSE i \in idxs : \A k \in idxs : k <= i]

CurrentToolCall(c) == CurrentAssistant(c).tool_calls[callIdx[c]]

\* the limit compared with > instead of >=
SafetyLimitLate(count, stop) == IF count > MaxSteps THEN TRUE ELSE stop

\* the limit applied one step early
SafetyLimitEarly(count, stop) == IF count >= MaxSteps - 1 THEN TRUE ELSE stop

\* if (stepCount >= 10) shouldStop = true
SafetyLimit(count, stop) == IF count >= MaxSteps THEN TRUE ELSE stop

\* ------------------------------------------------------------------------
\* generateText
\* ------------------------------------------------------------------------

\* while (!shouldStop) { const response = await fetch(...)
SendRequest(c) ==
  /\ pc[c] = "loop"
  /\ ~shouldStop[c]
  /\ pc' = [pc EXCEPT ![c] = "fetch"]
  /\ requests' = [requests EXCEPT ![c] = @ + 1]
  /\ inflight' = [inflight EXCEPT ![c] = @ \cup { [kind |-> "http", id |-> ToString(requests[c] + 1)] }]
  /\ sent' = [sent EXCEPT ![c] = messages[c]]
  /\ UNCHANGED << op, options, endpoint, messages, stepCount, shouldStop,
                  callIdx, response, stopLog, execLog, text, object, error, jsonSchema, projectName >>

\* the fetch promise rejects (no HTTP response at all)
FetchRejects(c) ==
  /\ pc[c] = "fetch"
  /\ pc' = [pc EXCEPT ![c] = "threw"]
  /\ error' = [error EXCEPT ![c] = "fetch failed"]
  /\ response' = [response EXCEPT ![c] = [status |-> "rejected", body |-> ""]]
  /\ inflight' = [inflight EXCEPT ![c] = {}]
  /\ UNCHANGED << op, options, endpoint, messages, stepCount, shouldStop,
                  callIdx, requests, stopLog, execLog, text, object, sent, jsonSchema, projectName >>

\* if (!response.ok) throw new Error(`OpenRouter API error: ${error}`)
ApiError(body) == "OpenRouter API error: " \o body

\* a non-success response answered by another round of the loop
ReceiveErrorRetry(c) ==
  /\ pc[c] = "fetch"
  /\ \E body \in ErrorBodies :
       response' = [response EXCEPT ![c] = [status |-> "error", body |-> body]]
  /\ pc' = [pc EXCEPT ![c] = "loop"]
  /\ inflight' = [inflight EXCEPT ![c] = {}]
  /\ UNCHANGED << op, options, endpoint, messages, stepCount, shouldStop,
                  callIdx, requests, stopLog, execLog, text, object, error, sent, jsonSchema, projectName >>

ReceiveError(c) ==
  /\ pc[c] = "fetch"
  /\ \E body \in ErrorBodies :
       /\ response' = [response EXCEPT ![c] = [status |-> "error", body |-> body]]
       /\ error' = [error EXCEPT ![c] = ApiError(body)]
  /\ pc' = [pc EXCEPT ![c] = "threw"]
  /\ inflight' = [inflight EXCEPT ![c] = {}]
  /\ UNCHANGED << op, options, endpoint, messages, stepCount, shouldStop,
                  callIdx, requests, stopLog, execLog, text, object, sent, jsonSchema, projectName >>

\* stepCount declared outside generateText: one counter for all the calls
ReceiveReplySharedCounter(c) ==
  /\ pc[c] = "fetch"
  /\ \E assistantMessage \in ReplyMessages(endpoint[c], requests[c]) :
       /\ messages' = [messages EXCEPT ![c] = Append(@, assistantMessage)]
       /\ stepCount' = [d \in Calls |-> stepCount[d] + 1]
       /\ IF HasToolCalls(assistantMessage)
            THEN /\ pc' = [pc EXCEPT ![c] = "calls"]
                 /\ callIdx' = [callIdx EXCEPT ![c] = 1]
                 /\ UNCHANGED shouldStop
            ELSE /\ pc' = [pc EXCEPT ![c] = "loop"]
                 /\ shouldStop' = [shouldStop EXCEPT ![c] = SafetyLimit(stepCount[c] + 1, TRUE)]
                 /\ UNCHANGED callIdx
  /\ response' = [response EXCEPT ![c] = [status |-> "ok", body |-> ""]]
  /\ inflight' = [inflight EXCEPT ![c] = {}]
  /\ UNCHANGED << op, options, endpoint, requests, stopLog, execLog, text, object, error, sent, jsonSchema, projectName >>

\* messages.push(assistantMessage); stepCount++; then the branch on
\* tool_calls: with calls, enter the for loop; without, shouldStop = true
\* and the safety limit, back to the loop head
ReceiveReply(c) ==
  /\ pc[c] = "fetch"
  /\ \E assistantMessage \in ReplyMessages(endpoint[c], requests[c]) :
       /\ messages' = [messages EXCEPT ![c] = Append(@, assistantMessage)]
       /\ stepCount' = [stepCount EXCEPT ![c] = @ + 1]
       /\ IF HasToolCalls(assistantMessage)
            THEN /\ pc' = [pc EXCEPT ![c] = "calls"]
                 /\ callIdx' = [callIdx EXCEPT ![c] = 1]
                 /\ UNCHANGED shouldStop
            ELSE /\ pc' = [pc EXCEPT ![c] = "loop"]
                 /\ shouldStop' = [shouldStop EXCEPT ![c] = SafetyLimit(stepCount[c] + 1, TRUE)]
                 /\ UNCHANGED callIdx
  /\ response' = [response EXCEPT ![c] = [status |-> "ok", body |-> ""]]
  /\ inflight' = [inflight EXCEPT ![c] = {}]
  /\ UNCHANGED << op, options, endpoint, requests, stopLog, execLog, text, object, error, sent, jsonSchema, projectName >>

\* the tool looked up before the arguments are parsed
ToolCallOutcomeLookupFirst(tools, toolCall) ==
  CASE Lookup(tools, toolCall.function.name) = "undefined" -> "skip"
    [] ~JSONParse(toolCall.function.arguments).ok          -> "SyntaxError"
    [] Lookup(tools, toolCall.function.name) = "inherited" -> "TypeError"
    [] OTHER                                               -> "execute"

\* The body of the for loop up to the await: JSON.parse of the arguments,
\* then tools?.[toolName], then if (tool) tool.execute(toolArgs)
ToolCallOutcome(tools, toolCall) ==
  IF ~JSONParse(toolCall.function.arguments).ok THEN "SyntaxError"
  ELSE CASE Lookup(tools, toolCall.function.name) = "tool"      -> "execute"
         [] Lookup(tools, toolCall.function.name) = "inherited" -> "TypeError"
         [] OTHER                                               -> "skip"

InForLoop(c) ==
  /\ pc[c] = "calls"
  /\ callIdx[c] <= Len(CurrentAssistant(c).tool_calls)

\* const toolArgs = JSON.parse(toolCall.function.arguments) throws
ParseFails(c) ==
  /\ InForLoop(c)
  /\ ToolCallOutcome(options[c].tools, CurrentToolCall(c)) = "SyntaxError"
  /\ pc' = [pc EXCEPT ![c] = "threw"]
  /\ error' = [error EXCEPT ![c] = "SyntaxError"]
  /\ UNCHANGED << op, options, endpoint, messages, stepCount, shouldStop,
                  callIdx, inflight, requests, response, stopLog, execLog, text, object, sent, jsonSchema, projectName >>

\* the for loop not moving past a call whose tool is not found
SkipToolCallStuck(c) ==
  /\ InForLoop(c)
  /\ ToolCallOutcome(options[c].tools, CurrentToolCall(c)) = "skip"
  /\ UNCHANGED vars

\* const tool = tools?.[toolName]; if (tool) is false: next tool call
SkipToolCall(c) ==
  /\ InForLoop(c)
  /\ ToolCallOutcome(options[c].tools, CurrentToolCall(c)) = "skip"
  /\ callIdx' = [callIdx EXCEPT ![c] = @ + 1]
  /\ UNCHANGED << op, options, endpoint, messages, stepCount, shouldStop, pc,
                  inflight, requests, response, stopLog, execLog, text, object, error, sent, jsonSchema, projectName >>

\* if (tool) is true for an inherited member: tool.execute is not a function
ExecuteMissing(c) ==
  /\ InForLoop(c)
  /\ ToolCallOutcome(options[c].tools, CurrentToolCall(c)) = "TypeError"
  /\ pc' = [pc EXCEPT ![c] = "threw"]
  /\ error' = [error EXCEPT ![c] = "TypeError"]
  /\ UNCHANGED << op, options, endpoint, messages, stepCount, shouldStop,
                  callIdx, inflight, requests, response, stopLog, execLog, text, object, sent, jsonSchema, projectName >>

\* tool.execute(toolArgs) started and not awaited
StartExecuteNoAwait(c) ==
  /\ pc[c] = "calls"
  /\ callIdx[c] <= Len(CurrentAssistant(c).tool_calls)
  /\ ToolCallOutcome(options[c].tools, CurrentToolCall(c)) = "execute"
  /\ callIdx' = [callIdx EXCEPT ![c] = @ + 1]
  /\ inflight' = [inflight EXCEPT ![c] = @ \cup { [kind |-> "exec", id |-> CurrentToolCall(c).id] }]
  /\ execLog' = [execLog EXCEPT ![c] = Append(@, CurrentToolCall(c).id)]
  /\ UNCHANGED << op, options, endpoint, messages, stepCount, shouldStop, pc,
                  requests, response, stopLog, text, object, error, sent, jsonSchema, projectName >>

\* const result = await tool.execute(toolArgs): the executor is started
StartExecute(c) ==
  /\ InForLoop(c)
  /\ ToolCallOutcome(options[c].tools, CurrentToolCall(c)) = "execute"
  /\ pc' = [pc EXCEPT ![c] = "exec"]
  /\ inflight' = [inflight EXCEPT ![c] = @ \cup { [kind |-> "exec", id |-> CurrentToolCall(c).id] }]
  /\ execLog' = [execLog EXCEPT ![c] = Append(@, CurrentToolCall(c).id)]
  /\ UNCHANGED << op, options, endpoint, messages, stepCount, shouldStop,
                  callIdx, requests, response, stopLog, text, object, error, sent, jsonSchema, projectName >>

\* the executor resolves: messages.push({role: "tool", ...}); next tool call
FinishExecute(c) ==
  /\ pc[c] = "exec"
  /\ messages' = [messages EXCEPT ![c] =
       Append(@, ToolMessage(JSONStringify(options[c].tools.returns),
                             CurrentToolCall(c).id,
                             CurrentToolCall(c).function.name))]
  /\ callIdx' = [callIdx EXCEPT ![c] = @ + 1]
  /\ pc' = [pc EXCEPT ![c] = "calls"]
  /\ inflight' = [inflight EXCEPT ![c] = {}]
  /\ UNCHANGED << op, options, endpoint, stepCount, shouldStop, requests,
                  response, stopLog, execLog, text, object, error, sent, jsonSchema, projectName >>

\* the executor rejects: the rejection is swallowed, on to the next call
ExecuteFailsSwallowed(c) ==
  /\ pc[c] = "exec"
  /\ pc' = [pc EXCEPT ![c] = "calls"]
  /\ callIdx' = [callIdx EXCEPT ![c] = @ + 1]
  /\ inflight' = [inflight EXCEPT ![c] = {}]
  /\ UNCHANGED << op, options, endpoint, messages, stepCount, shouldStop,
                  requests, response, stopLog, execLog, text, object, error, sent, jsonSchema, projectName >>

\* the executor rejects: the error leaves generateText
ExecuteFails(c) ==
  /\ pc[c] = "exec"
  /\ pc' = [pc EXCEPT ![c] = "threw"]
  /\ error' = [error EXCEPT ![c] = "tool failed"]
  /\ inflight' = [inflight EXCEPT ![c] = {}]
  /\ UNCHANGED << op, options, endpoint, messages, stepCount, shouldStop,
                  callIdx, requests, response, stopLog, execLog, text, object, sent, jsonSchema, projectName >>

\* stopWhen given the count of the steps before this one
CheckStopStale(c) ==
  /\ pc[c] = "calls"
  /\ callIdx[c] > Len(CurrentAssistant(c).tool_calls)
  /\ \E stop \in StopWhenResults(options[c].stopWhen, stepCount[c] - 1) :
       /\ shouldStop' = [shouldStop EXCEPT ![c] =
                           SafetyLimit(stepCount[c], IF stop THEN TRUE ELSE @)]
       /\ stopLog' = [stopLog EXCEPT ![c] =
                        IF options[c].stopWhen.kind = "none" THEN @
                        ELSE Append(@, [arg |-> stepCount[c] - 1, result |-> stop])]
  /\ pc' = [pc EXCEPT ![c] = "loop"]
  /\ UNCHANGED << op, options, endpoint, messages, stepCount, callIdx,
                  inflight, requests, response, execLog, text, object, error, sent, jsonSchema, projectName >>

\* after the for loop: if (options.stopWhen && options.stopWhen(stepCount))
\* shouldStop = true; then the safety limit; back to the loop head
CheckStop(c) ==
  /\ pc[c] = "calls"
  /\ callIdx[c] > Len(CurrentAssistant(c).tool_calls)
  /\ \E stop \in StopWhenResults(options[c].stopWhen, stepCount[c]) :
       /\ shouldStop' = [shouldStop EXCEPT ![c] =
                           SafetyLimit(stepCount[c], IF stop THEN TRUE ELSE @)]
       /\ stopLog' = [stopLog EXCEPT ![c] =
                        IF options[c].stopWhen.kind = "none" THEN @
                        ELSE Append(@, [arg |-> stepCount[c], result |-> stop])]
  /\ pc' = [pc EXCEPT ![c] = "loop"]
  /\ UNCHANGED << op, options, endpoint, messages, stepCount, callIdx,
                  inflight, requests, response, execLog, text, object, error, sent, jsonSchema, projectName >>

\* the content of the latest assistant message, wherever it stands
FinalTextLastAssistant(msgs) ==
  LET idxs == { i \in 1..Len(msgs) : msgs[i].role = "assistant" }
  IN  IF idxs = {} THEN ""
      ELSE msgs[CHOOSE i \in idxs : \A k \in idxs : k <= i].content

\* no text when the last message still requests tool calls
FinalTextNoPending(msgs) ==
  IF msgs[Len(msgs)].role = "assistant" /\ ~HasToolCalls(msgs[Len(msgs)])
    THEN msgs[Len(msgs)].content ELSE ""

\* const text = lastMessage.role === "assistant" ? lastMessage.content : ""
FinalText(msgs) ==
  IF msgs[Len(msgs)].role = "assistant" THEN msgs[Len(msgs)].content ELSE ""

\* the loop is left: return { text }
Return(c) ==
  /\ pc[c] = "loop"
  /\ shouldStop[c]
  /\ text' = [text EXCEPT ![c] = FinalText(messages[c])]
  /\ pc' = [pc EXCEPT ![c] = "returned"]
  /\ UNCHANGED << op, options, endpoint, messages, stepCount, shouldStop,
                  callIdx, inflight, requests, response, stopLog, execLog, object, error, sent, jsonSchema, projectName >>

\* ------------------------------------------------------------------------
\* generateObject
\* ------------------------------------------------------------------------

\* Reply contents the endpoint may give a structured request
ObjectContents == JsonTexts \cup BadTexts

\* const response = await fetch(...) with response_format json_object
ObjectSend(c) ==
  /\ pc[c] = "send"
  /\ pc' = [pc EXCEPT ![c] = "ofetch"]
  /\ requests' = [requests EXCEPT ![c] = @ + 1]
  /\ inflight' = [inflight EXCEPT ![c] = @ \cup { [kind |-> "http", id |-> ToString(requests[c] + 1)] }]
  /\ sent' = [sent EXCEPT ![c] = messages[c]]
  /\ UNCHANGED << op, options, endpoint, messages, stepCount, shouldStop,
                  callIdx, response, stopLog, execLog, text, object, error, jsonSchema, projectName >>

\* the fetch promise rejects
ObjectFetchRejects(c) ==
  /\ pc[c] = "ofetch"
  /\ pc' = [pc EXCEPT ![c] = "threw"]
  /\ error' = [error EXCEPT ![c] = "fetch failed"]
  /\ response' = [response EXCEPT ![c] = [status |-> "rejected", body |-> ""]]
  /\ inflight' = [inflight EXCEPT ![c] = {}]
  /\ UNCHANGED << op, options, endpoint, messages, stepCount, shouldStop,
                  callIdx, requests, stopLog, execLog, text, object, sent, jsonSchema, projectName >>

\* if (!response.ok) throw new Error(`OpenRouter API error: ${error}`)
ObjectReceiveError(c) ==
  /\ pc[c] = "ofetch"
  /\ \E body \in ErrorBodies :
       /\ response' = [response EXCEPT ![c] = [status |-> "error", body |-> body]]
       /\ error' = [error EXCEPT ![c] = ApiError(body)]
  /\ pc' = [pc EXCEPT ![c] = "threw"]
  /\ inflight' = [inflight EXCEPT ![c] = {}]
  /\ UNCHANGED << op, options, endpoint, messages, stepCount, shouldStop,
                  callIdx, requests, stopLog, execLog, text, object, sent, jsonSchema, projectName >>

\* const content = data.choices[0].message.content;
\* const parsed = JSON.parse(content); const validated = schema.parse(parsed);
\* return { object: validated }
ObjectReceive(c) ==
  /\ pc[c] = "ofetch"
  /\ \E content \in ObjectContents :
       LET parsed    == JSONParse(content)
           validated == SchemaParse(options[c].schema, parsed.value)
       IN  /\ response' = [response EXCEPT ![c] = [status |-> "ok", body |-> content]]
           /\ IF ~parsed.ok
                THEN /\ pc' = [pc EXCEPT ![c] = "threw"]
                     /\ error' = [error EXCEPT ![c] = "SyntaxError"]
                     /\ UNCHANGED object
              ELSE IF ~validated.ok
                THEN /\ pc' = [pc EXCEPT ![c] = "threw"]
                     /\ error' = [error EXCEPT ![c] = "ZodError"]
                     /\ UNCHANGED object
              ELSE   /\ pc' = [pc EXCEPT ![c] = "returned"]
                     /\ object' = [object EXCEPT ![c] = validated.value]
                     /\ UNCHANGED error
  /\ inflight' = [inflight EXCEPT ![c] = {}]
  /\ UNCHANGED << op, options, endpoint, messages, stepCount, shouldStop,
                  callIdx, requests, stopLog, execLog, text, sent, jsonSchema, projectName >>

\* ------------------------------------------------------------------------
\* zodToJsonSchema called on a schema
\* ------------------------------------------------------------------------
Compile(c) ==
  /\ pc[c] = "compile"
  /\ jsonSchema' = [jsonSchema EXCEPT ![c] = zodToJsonSchema(options[c].schema)]
  /\ pc' = [pc EXCEPT ![c] = "returned"]
  /\ UNCHANGED << op, options, endpoint, messages, stepCount, shouldStop,
                  callIdx, inflight, requests, response, stopLog, execLog,
                  text, object, error, sent, projectName >>

\* ------------------------------------------------------------------------
\* generateProjectName
\* ------------------------------------------------------------------------
\* the text returned as it is, empty or not
NameReturnNoFallback(c) ==
  /\ op[c] = "generateProjectName"
  /\ pc[c] = "returned"
  /\ projectName' = [projectName EXCEPT ![c] = Trim(text[c])]
  /\ pc' = [pc EXCEPT ![c] = "done"]
  /\ UNCHANGED << op, options, endpoint, messages, stepCount, shouldStop,
                  callIdx, inflight, requests, response, stopLog, execLog,
                  text, object, error, sent, jsonSchema >>

\* const { text } = await generateText(...);
\* return text?.trim() || "Untitled Project"
NameReturn(c) ==
  /\ op[c] = "generateProjectName"
  /\ pc[c] = "returned"
  /\ projectName' = [projectName EXCEPT ![c] =
       IF text[c] /= Undefined /\ TruthyString(Trim(text[c]))
         THEN Trim(text[c]) ELSE "Untitled Project"]
  /\ pc' = [pc EXCEPT ![c] = "done"]
  /\ UNCHANGED << op, options, endpoint, messages, stepCount, shouldStop,
                  callIdx, inflight, requests, response, stopLog, execLog,
                  text, object, error, sent, jsonSchema >>

\* catch (error) { console.log(error); return "Untitled Project" }
NameCatch(c) ==
  /\ op[c] = "generateProjectName"
  /\ pc[c] = "threw"
  /\ projectName' = [projectName EXCEPT ![c] = "Untitled Project"]
  /\ pc' = [pc EXCEPT ![c] = "done"]
  /\ UNCHANGED << op, options, endpoint, messages, stepCount, shouldStop,
                  callIdx, inflight, requests, response, stopLog, execLog,
                  text, object, error, sent, jsonSchema >>

Next ==
  \E c \in Calls :
    \/ SendRequest(c)
    \/ FetchRejects(c)
    \/ ReceiveError(c)
    \/ ReceiveReply(c)
    \/ ParseFails(c)
    \/ SkipToolCall(c)
    \/ ExecuteMissing(c)
    \/ StartExecute(c)
    \/ FinishExecute(c)
    \/ ExecuteFails(c)
    \/ CheckStop(c)
    \/ Return(c)
    \/ ObjectSend(c)
    \/ ObjectFetchRejects(c)
    \/ ObjectReceiveError(c)
    \/ ObjectReceive(c)
    \/ Compile(c)
    \/ NameReturn(c)
    \/ NameCatch(c)

Spec == Init /\ [][Next]_vars

\* ------------------------------------------------------------------------
\* generateText alone, every step that can be taken being taken in the end:
\* the synchronous code between two awaits runs, and every awaited fetch
\* and executor settles
\* ------------------------------------------------------------------------
InitText ==
  \E o \in TextOptions, ep \in Endpoints : Start("generateText", o, ep)

NextText ==
  \E c \in Calls :
    \/ SendRequest(c)
    \/ FetchRejects(c)
    \/ ReceiveError(c)
    \/ ReceiveReply(c)
    \/ ParseFails(c)
    \/ SkipToolCall(c)
    \/ ExecuteMissing(c)
    \/ StartExecute(c)
    \/ FinishExecute(c)
    \/ ExecuteFails(c)
    \/ CheckStop(c)
    \/ Return(c)

SpecFair == InitText /\ [][NextText]_vars /\ WF_vars(NextText)

\* ------------------------------------------------------------------------
\* Several generateText calls made before any of them has settled: the
\* event loop runs their steps in any order
\* ------------------------------------------------------------------------
\* What the concurrent callers pass and what their endpoints reply
ConcurrentSetups ==
  { [ f  |-> "generateText",
      o  |-> [ system |-> "be brief", prompt |-> "hello",
               tools |-> [given |-> TRUE, names |-> {"search"}, returns |-> JStr("sunny")],
               stopWhen |-> stepCountIs(2) ],
      ep |-> [ toolReply |->
                 [ content |-> "Let me check.",
                   calls |-> << [name |-> "search", arguments |-> "{\"q\":\"x\"}"],
                                [name |-> "lookup", arguments |-> "{\"q\":\"x\"}"] >> ] ] ],
    [ f  |-> "generateText",
      o  |-> [ system |-> "", prompt |-> "hello",
               tools |-> [given |-> TRUE, names |-> {"search"}, returns |-> JStr("sunny")],
               stopWhen |-> stepCountIs(1) ],
      ep |-> [ toolReply |->
                 [ content |-> "Let me check.",
                   calls |-> << [name |-> "constructor", arguments |-> "{\"q\":\"x\"}"] >> ] ] ],
    [ f  |-> "generateText",
      o  |-> [ system |-> Undefined, prompt |-> "hello",
               tools |-> [given |-> FALSE, names |-> {}, returns |-> JUndef],
               stopWhen |-> [kind |-> "none", count |-> 0] ],
      ep |-> [ toolReply |->
                 [ content |-> "Let me check.",
                   calls |-> << [name |-> "search", arguments |-> "{q:"] >> ] ] ] }

InitConcurrent == \E setup \in [Calls -> ConcurrentSetups] : StartCalls(setup)

SpecConcurrent == InitConcurrent /\ [][NextText]_vars

TypeOK ==
  \A c \in Calls :
    /\ op[c] \in {"idle", "generateText", "generateObject", "zodToJsonSchema",
                "generateProjectName"}
    /\ stepCount[c] \in Nat
    /\ requests[c] \in Nat
    /\ shouldStop[c] \in BOOLEAN
    /\ pc[c] \in {"idle", "loop", "fetch", "calls", "exec", "send", "ofetch",
                  "compile", "returned", "threw", "done"}

\* ------------------------------------------------------------------------
\* Vocabulary of the properties (read off the transcript and the logs)
\* ------------------------------------------------------------------------
InText(c) == op[c] = "generateText"

\* m is an assistant message that requests at least one tool call
RequestsTools(m) ==
  m.role = "assistant" /\ m.has_tool_calls /\ m.tool_calls /= << >>

\* m is an assistant message that requests none (absent or empty tool_calls)
RequestsNothing(m) ==
  m.role = "assistant" /\ (~m.has_tool_calls \/ m.tool_calls = << >>)

AssistantIdxs(c) ==
  { i \in 1..Len(messages[c]) : messages[c][i].role = "assistant" }

\* every reply received so far requested tool calls
AllToolTurns(c) ==
  \A i \in AssistantIdxs(c) : RequestsTools(messages[c][i])

HasReply(c) == AssistantIdxs(c) /= {}

\* the latest assistant reply in the transcript
LastReply(c) ==
  messages[c][CHOOSE i \in AssistantIdxs(c) : \A k \in AssistantIdxs(c) : k <= i]

\* ids of the tool messages of the transcript
ToolMessageIds(c) ==
  { messages[c][i].tool_call_id :
      i \in { k \in 1..Len(messages[c]) : messages[c][k].role = "tool" } }

ExecutedIds(c) == { execLog[c][i] : i \in 1..Len(execLog[c]) }

\* ------------------------------------------------------------------------
\* C1: the step counter never exceeds 10 and at most 10 HTTP requests are
\* sent during one call, whatever the endpoint, the tools and stopWhen are.
\* ------------------------------------------------------------------------
C1_StepCeiling ==
  \A c \in Calls : stepCount[c] <= MaxSteps /\ requests[c] <= MaxSteps

\* a call whose stopWhen never returned true, stopped by the ceiling
C1_Witness ==
  \E c \in Calls :
    /\ InText(c) /\ pc[c] = "returned"
    /\ options[c].stopWhen.kind = "any"
    /\ Len(stopLog[c]) = MaxSteps
    /\ \A i \in 1..Len(stopLog[c]) : ~stopLog[c][i].result
    /\ stepCount[c] = MaxSteps /\ requests[c] = MaxSteps

\* ------------------------------------------------------------------------
\* C2 (as stated): with an endpoint that requests tool calls on every reply,
\* a call that returns has made exactly 10 steps, whatever stopWhen is.
\* ------------------------------------------------------------------------
C2_AlwaysTenSteps ==
  \A c \in Calls :
    (InText(c) /\ pc[c] = "returned" /\ AllToolTurns(c))
      => stepCount[c] = MaxSteps

\* C2 (amended): with an endpoint that requests tool calls on every reply,
\* a call that returns has made exactly 10 steps if stopWhen is absent or
\* returned false every time; if stopWhen returned true, it did so once, on
\* its last consultation, and the call ended at that step count (<= 10).
C2_TenStepsUnlessStopped ==
  \A c \in Calls :
    (InText(c) /\ pc[c] = "returned" /\ AllToolTurns(c))
      => LET log == stopLog[c]
             yes == { i \in 1..Len(log) : log[i].result }
         IN  /\ stepCount[c] <= MaxSteps
             /\ yes = {} => stepCount[c] = MaxSteps
             /\ yes /= {} => /\ yes = { Len(log) }
                             /\ stepCount[c] = log[Len(log)].arg

\* ten tool-calling turns with a stopWhen that is absent
C2_Witness ==
  \E c \in Calls :
    /\ InText(c) /\ pc[c] = "returned" /\ AllToolTurns(c)
    /\ options[c].stopWhen.kind = "none"
    /\ stepCount[c] = MaxSteps
    /\ Len(execLog[c]) >= MaxSteps

\* ------------------------------------------------------------------------
\* C3: with stopWhen = stepCountIs(n), 1 <= n <= 10, and an endpoint that
\* requests tool calls on every reply, never more than n requests are sent
\* and a call that returns has sent exactly n requests in n steps.
\* ------------------------------------------------------------------------
C3_StepCountIsN ==
  \A c \in Calls :
    (/\ InText(c)
     /\ options[c].stopWhen.kind = "stepCountIs"
     /\ options[c].stopWhen.count \in 1..MaxSteps
     /\ AllToolTurns(c))
      => /\ requests[c] <= options[c].stopWhen.count
         /\ pc[c] = "returned" =>
              /\ requests[c] = options[c].stopWhen.count
              /\ stepCount[c] = options[c].stopWhen.count

\* stepCountIs(2): returned after two turns that each executed a tool
C3_Witness ==
  \E c \in Calls :
    /\ InText(c) /\ pc[c] = "returned" /\ AllToolTurns(c)
    /\ options[c].stopWhen = [kind |-> "stepCountIs", count |-> 2]
    /\ requests[c] = 2
    /\ Len(execLog[c]) = 2

\* the tool calls the latest reply requested
LastCalls(c) == LastReply(c).tool_calls

\* name is not a key of the caller's tool set
Unregistered(c, name) ==
  ~options[c].tools.given \/ name \notin options[c].tools.names

\* ids of the tool messages, in transcript order
ToolMessageIdSeq(c) ==
  LET toolMsgs == SelectSeq(messages[c], LAMBDA m : m.role = "tool")
  IN  [ i \in 1..Len(toolMsgs) |-> toolMsgs[i].tool_call_id ]

\* ids of all requested tool calls, in the order the endpoint emitted them
RECURSIVE RequestedIdSeq(_)
RequestedIdSeq(msgs) ==
  IF msgs = << >> THEN << >>
  ELSE LET m == msgs[Len(msgs)]
       IN  RequestedIdSeq(SubSeq(msgs, 1, Len(msgs) - 1)) \o
             (IF m.role = "assistant"
                THEN [ j \in 1..Len(m.tool_calls) |-> m.tool_calls[j].id ]
                ELSE << >>)

IsPrefix(s, t) == Len(s) <= Len(t) /\ SubSeq(t, 1, Len(s)) = s

\* ------------------------------------------------------------------------
\* C4 (as stated): a tool call whose name is not registered and whose
\* arguments are valid JSON never makes generateText throw.
\* ------------------------------------------------------------------------
C4_UnregisteredNeverThrows ==
  \A c \in Calls :
    (InText(c) /\ pc[c] = "threw" /\ response[c].status = "ok")
      => LET toolCall == LastCalls(c)[callIdx[c]]
         IN  ~(/\ Unregistered(c, toolCall.function.name)
               /\ toolCall.function.arguments \in JsonTexts)

\* ------------------------------------------------------------------------
\* C5: once an assistant reply requests no tool calls the loop is over: it
\* sets shouldStop without consulting stopWhen, and from then on no request
\* is sent, no executor is invoked, stopWhen is not called and nothing is
\* appended; this at any step count from 1 to 10.
\* ------------------------------------------------------------------------
C5_NoToolCallsEndsLoop ==
  /\ [](\A c \in Calls :
          (InText(c) /\ HasReply(c) /\ RequestsNothing(LastReply(c)))
            => /\ pc[c] \in {"loop", "returned"}
               /\ shouldStop[c]
               /\ requests[c] = stepCount[c]
               /\ inflight[c] = {}
               /\ \A i \in 1..Len(stopLog[c]) : stopLog[c][i].arg < stepCount[c])
  /\ [][\A c \in Calls :
          (InText(c) /\ HasReply(c) /\ RequestsNothing(LastReply(c)))
            => /\ requests'[c] = requests[c]
               /\ execLog'[c] = execLog[c]
               /\ stopLog'[c] = stopLog[c]
               /\ messages'[c] = messages[c]]_vars

\* a reply with an empty tool_calls list at step 7, after six tool turns
C5_Witness ==
  \E c \in Calls :
    /\ InText(c) /\ pc[c] = "returned"
    /\ RequestsNothing(LastReply(c)) /\ LastReply(c).has_tool_calls
    /\ stepCount[c] = 7 /\ requests[c] = 7
    /\ Len(execLog[c]) >= 6
    /\ options[c].stopWhen.kind = "any"

\* ------------------------------------------------------------------------
\* C6: when generateText returns, the text is the content of the final
\* transcript entry if that entry is an assistant message and empty
\* otherwise; it is empty whenever a tool of the last turn was executed.
\* ------------------------------------------------------------------------
C6_FinalText ==
  \A c \in Calls :
    (InText(c) /\ pc[c] = "returned")
      => LET last == messages[c][Len(messages[c])]
         IN  /\ text[c] = (IF last.role = "assistant" THEN last.content ELSE "")
             /\ (\E j \in 1..Len(LastCalls(c)) :
                   LastCalls(c)[j].id \in ExecutedIds(c)) => text[c] = ""

\* stopped by stepCountIs(3) on a turn that executed a tool: empty text
C6_Witness ==
  \E c \in Calls :
    /\ InText(c) /\ pc[c] = "returned"
    /\ options[c].stopWhen = [kind |-> "stepCountIs", count |-> 3]
    /\ messages[c][Len(messages[c])].role = "tool"
    /\ LastReply(c).content /= ""
    /\ text[c] = ""

\* ------------------------------------------------------------------------
\* C7 (as stated): in every run that returns and whose last assistant reply
\* requested tool calls, registered or not, the returned text is empty.
\* ------------------------------------------------------------------------
C7_EmptyAfterToolCalls ==
  \A c \in Calls :
    (InText(c) /\ pc[c] = "returned" /\ RequestsTools(LastReply(c)))
      => text[c] = ""

\* C7 (amended): in every run that returns and whose last assistant reply
\* requested tool calls, the returned text is empty if at least one of those
\* calls was executed (its tool message ends the transcript); if none of
\* them named a registered tool, the text is the content of that reply.
C7_EmptyAfterExecutedToolCalls ==
  \A c \in Calls :
    (InText(c) /\ pc[c] = "returned" /\ RequestsTools(LastReply(c)))
      => IF \E j \in 1..Len(LastCalls(c)) :
              ~Unregistered(c, LastCalls(c)[j].function.name)
           THEN text[c] = ""
           ELSE text[c] = LastReply(c).content

\* the ceiling reached on a turn that asked only for an unregistered tool
C7_Witness ==
  \E c \in Calls :
    /\ InText(c) /\ pc[c] = "returned" /\ RequestsTools(LastReply(c))
    /\ options[c].tools.given
    /\ stepCount[c] = MaxSteps
    /\ execLog[c] = << >>
    /\ text[c] = "Let me check."

\* ------------------------------------------------------------------------
\* C8: a non-success HTTP response makes generateText and generateObject
\* throw "OpenRouter API error: " followed by the body; after it the call
\* sends no request, appends no message and invokes no executor.
\* ------------------------------------------------------------------------
C8_TransportError ==
  /\ [](\A c \in Calls :
          (op[c] \in {"generateText", "generateObject"} /\ response[c].status = "error")
            => /\ pc[c] = "threw"
               /\ error[c] = "OpenRouter API error: " \o response[c].body
               /\ inflight[c] = {})
  /\ [][\A c \in Calls :
          (response[c].status = "error" \/ response'[c].status = "error")
            => /\ requests'[c] = requests[c]
               /\ messages'[c] = messages[c]
               /\ execLog'[c] = execLog[c]
               /\ stepCount'[c] = stepCount[c]]_vars

\* the third request of a run that executed tools is answered non-success
C8_Witness ==
  \E c \in Calls :
    /\ InText(c) /\ response[c].status = "error"
    /\ requests[c] = 3 /\ stepCount[c] = 2
    /\ Len(execLog[c]) >= 2
    /\ error[c] = "OpenRouter API error: rate limited"

\* ------------------------------------------------------------------------
\* C9: if the arguments of a tool call of the latest reply are not valid
\* JSON, the call never gets past that tool call, registered or not: that
\* call and the later ones of the turn are not executed and get no tool
\* message, stopWhen is not consulted for the turn, no further request is
\* sent and generateText does not return.
\* ------------------------------------------------------------------------
C9_MalformedToolArgs ==
  \A c \in Calls :
    (InText(c) /\ HasReply(c))
      => LET bad == { j \in 1..Len(LastCalls(c)) :
                        LastCalls(c)[j].function.arguments \notin JsonTexts }
         IN  bad /= {}
               => /\ pc[c] \in {"calls", "exec", "threw"}
                  /\ \A j \in 1..Len(LastCalls(c)) :
                       (\E b \in bad : b <= j)
                         => /\ LastCalls(c)[j].id \notin ExecutedIds(c)
                            /\ LastCalls(c)[j].id \notin ToolMessageIds(c)
                  /\ \A i \in 1..Len(stopLog[c]) : stopLog[c][i].arg < stepCount[c]
                  /\ requests[c] = stepCount[c]
                  /\ \A b \in bad : callIdx[c] <= b

\* thrown at the second call, an unregistered name with malformed
\* arguments, after the first call was executed
C9_Witness ==
  \E c \in Calls :
    /\ InText(c) /\ pc[c] = "threw" /\ error[c] = "SyntaxError"
    /\ callIdx[c] = 2
    /\ Unregistered(c, LastCalls(c)[2].function.name)
    /\ LastCalls(c)[2].function.arguments \notin JsonTexts
    /\ Len(execLog[c]) = 1 /\ Len(ToolMessageIdSeq(c)) = 1

\* ------------------------------------------------------------------------
\* C10: one generateText call is strictly sequential: at most one HTTP
\* request or executor is in flight; executors run in the order the calls
\* were emitted, each tool message is appended before the next executor
\* starts, and a request is in flight only when every registered call of
\* the previous turn has its tool message.
\* ------------------------------------------------------------------------
C10_Sequential ==
  \A c \in Calls :
    InText(c)
      => LET req  == RequestedIdSeq(messages[c])
             Pos(id) == CHOOSE k \in 1..Len(req) : req[k] = id
             done == ToolMessageIdSeq(c)
         IN  /\ Cardinality(inflight[c]) <= 1
             /\ \A i \in 1..Len(execLog[c]) : \E k \in 1..Len(req) : req[k] = execLog[c][i]
             /\ \A i, j \in 1..Len(execLog[c]) :
                  i < j => Pos(execLog[c][i]) < Pos(execLog[c][j])
             /\ IsPrefix(done, execLog[c])
             /\ Len(execLog[c]) - Len(done) <= 1
             /\ Len(execLog[c]) > Len(done)
                  => \/ inflight[c] = { [kind |-> "exec", id |-> execLog[c][Len(execLog[c])]] }
                     \/ pc[c] = "threw"
             /\ (HasReply(c) /\ \E f \in inflight[c] : f.kind = "http")
                  => \A j \in 1..Len(LastCalls(c)) :
                       ~Unregistered(c, LastCalls(c)[j].function.name)
                         => LastCalls(c)[j].id \in ToolMessageIds(c)

\* the second executor of the second turn is running, the first three done
C10_Witness ==
  \E c \in Calls :
    /\ InText(c) /\ pc[c] = "exec" /\ callIdx[c] = 2 /\ stepCount[c] = 2
    /\ Len(execLog[c]) = 4 /\ Len(ToolMessageIdSeq(c)) = 3
    /\ Cardinality(inflight[c]) = 1

\* ------------------------------------------------------------------------
\* C11: the transcript of a generateText call starts as the system message
\* (only if a system text is given) followed by the user prompt, only ever
\* grows by appending, and the message list of every request is the whole
\* transcript at the moment the request is sent.
\* ------------------------------------------------------------------------
C11_AppendOnlyTranscript ==
  /\ [](\A c \in Calls :
          InText(c)
            => LET sys   == options[c].system
                   start == (IF sys /= Undefined /\ sys /= ""
                               THEN << [role |-> "system", content |-> sys] >>
                               ELSE << >>)
                            \o << [role |-> "user", content |-> options[c].prompt] >>
               IN  /\ IsPrefix(start, messages[c])
                   /\ requests[c] = 0 => messages[c] = start
                   /\ requests[c] > 0 => IsPrefix(sent[c], messages[c])
                   /\ (\E f \in inflight[c] : f.kind = "http")
                        => sent[c] = messages[c])
  /\ [][\A c \in Calls :
          InText(c)
            => /\ IsPrefix(messages[c], messages'[c])
               /\ requests'[c] /= requests[c] => sent'[c] = messages[c]]_vars

\* the third request carries the system message, the prompt, two replies
\* and their tool messages
C11_Witness ==
  \E c \in Calls :
    /\ InText(c) /\ pc[c] = "fetch" /\ requests[c] = 3
    /\ Len(sent[c]) >= 6
    /\ sent[c][1].role = "system" /\ sent[c][2].role = "user"
    /\ sent[c][Len(sent[c])].role = "tool"
    /\ sent[c] = messages[c]

\* ------------------------------------------------------------------------
\* The compiled documents
\* ------------------------------------------------------------------------
Compiled(c) == op[c] = "zodToJsonSchema" /\ pc[c] = "returned"

\* The keys of a sequence of fields, in their order
KeysOf(fields) == [ i \in 1..Len(fields) |-> fields[i].key ]

\* doc lists exactly the keys expected as required, and has no required
\* key when there are none
RequiredIs(doc, expected) ==
  IF Len(expected) = 0
    THEN "required" \notin DOMAIN doc
    ELSE "required" \in DOMAIN doc /\ doc.required = expected

RECURSIVE SubDocuments(_)

\* doc and every document inside it, through properties and items
SubDocuments(doc) ==
  { doc } \cup
    (CASE doc.type = "object" ->
            UNION { SubDocuments(doc.properties[i].value) :
                      i \in 1..Len(doc.properties) }
       [] doc.type = "array"  -> SubDocuments(doc.items)
       [] OTHER               -> {})

C16_AdditionalPropertiesFalse ==
  \A c \in Calls :
    Compiled(c)
      => \A d \in SubDocuments(jsonSchema[c]) :
           d.type = "object"
             => "additionalProperties" \in DOMAIN d /\ d.additionalProperties = FALSE

\* z.object({title: z.optional(z.array(z.object({})))}): an object inside
\* an array inside an Optional inside an object
C16_Witness ==
  \E c \in Calls :
    /\ Compiled(c)
    /\ options[c].schema.kind = "object"
    /\ Len(options[c].schema.shape) = 1
    /\ options[c].schema.shape[1].value.kind = "optional"
    /\ options[c].schema.shape[1].value.innerType.kind = "array"
    /\ options[c].schema.shape[1].value.innerType.type.kind = "object"
    /\ Cardinality({ d \in SubDocuments(jsonSchema[c]) : d.type = "object" }) = 2

\* ------------------------------------------------------------------------
\* C13: generateObject returns {object} only when the response is a
\* success, the reply content is valid JSON and the parsed value matches
\* the schema, and then the object is that value; content that is not valid
\* JSON fails with a SyntaxError and valid JSON that does not match fails
\* with a ZodError, nothing being returned in either case; exactly one HTTP
\* request is sent per call.
\* ------------------------------------------------------------------------
C13_StructuredGeneration ==
  \A c \in Calls :
    op[c] = "generateObject"
      => LET content == response[c].body
             kind    == options[c].schema.kind
             valid   == content \in { "{\"q\":\"x\"}", "{\"name\":\"X\"}", "{\"name\":5}" }
             matches == \/ kind = "string" /\ content = "{\"name\":\"X\"}"
                        \/ kind = "number" /\ content = "{\"name\":5}"
             value   == IF kind = "string"
                          THEN [type |-> "object", key |-> "name",
                                val |-> [type |-> "string", str |-> "X"]]
                          ELSE [type |-> "object", key |-> "name",
                                val |-> [type |-> "number", num |-> 5]]
             none    == [type |-> "undefined"]
         IN  /\ requests[c] <= 1
             /\ pc[c] \in {"ofetch", "returned", "threw"} => requests[c] = 1
             /\ pc[c] = "returned"
                  => response[c].status = "ok" /\ valid /\ matches /\ object[c] = value
             /\ pc[c] /= "returned" => object[c] = none
             /\ response[c].status = "ok" /\ ~valid
                  => pc[c] = "threw" /\ error[c] = "SyntaxError"
             /\ response[c].status = "ok" /\ valid /\ ~matches
                  => pc[c] = "threw" /\ error[c] = "ZodError"

\* {"name":5} against z.object({name: z.string()}) failed with a ZodError
\* after one request
C13_Witness ==
  \E c \in Calls :
    /\ op[c] = "generateObject" /\ pc[c] = "threw"
    /\ options[c].schema.kind = "string"
    /\ response[c] = [status |-> "ok", body |-> "{\"name\":5}"]
    /\ error[c] = "ZodError" /\ requests[c] = 1

\* the a-th assistant reply of the transcript
NthReply(c, a) ==
  SelectSeq(messages[c], LAMBDA m : m.role = "assistant")[a]

\* every call of reply m that names a registered tool has its tool message
AllProcessed(c, m) ==
  \A j \in 1..Len(m.tool_calls) :
    ~Unregistered(c, m.tool_calls[j].function.name)
      => m.tool_calls[j].id \in ToolMessageIds(c)

\* ------------------------------------------------------------------------
\* C17: stopWhen is consulted only on turns whose reply requested a tool
\* call, once per such turn and after every call of the turn has been
\* processed; its argument is the number of assistant replies appended so
\* far, between 1 and 10 and never 0; a call that returns has sent at least
\* one request, even when stopWhen is true for 0.
\* ------------------------------------------------------------------------
C17_StopWhenConsulted ==
  /\ [](\A c \in Calls :
          InText(c)
            => LET n    == Cardinality(AssistantIdxs(c))
                   log  == stopLog[c]
                   args == { log[i].arg : i \in 1..Len(log) }
               IN  /\ \A i \in 1..Len(log) : log[i].arg \in 1..10 /\ log[i].arg <= n
                   /\ \A i, j \in 1..Len(log) : i < j => log[i].arg < log[j].arg
                   /\ \A a \in args : /\ RequestsTools(NthReply(c, a))
                                       /\ AllProcessed(c, NthReply(c, a))
                   /\ options[c].stopWhen.kind /= "none"
                        => \A a \in 1..n :
                             (/\ RequestsTools(NthReply(c, a))
                              /\ requests[c] > a \/ pc[c] \in {"loop", "returned"})
                               => a \in args
                   /\ pc[c] = "returned" => requests[c] >= 1)
  /\ [][\A c \in Calls :
          (InText(c) /\ stopLog'[c] /= stopLog[c])
            => /\ Len(stopLog'[c]) = Len(stopLog[c]) + 1
               /\ SubSeq(stopLog'[c], 1, Len(stopLog[c])) = stopLog[c]
               /\ stopLog'[c][Len(stopLog'[c])].arg = Cardinality(AssistantIdxs(c))
               /\ messages'[c] = messages[c]
               /\ RequestsTools(LastReply(c))
               /\ AllProcessed(c, LastReply(c))]_vars

\* stepCountIs(0) was consulted once, with 1, after the two calls of the
\* first reply were processed, and the call returned after one request
C17_Witness ==
  \E c \in Calls :
    /\ InText(c) /\ pc[c] = "returned"
    /\ options[c].stopWhen = [kind |-> "stepCountIs", count |-> 0]
    /\ stopLog[c] = << [arg |-> 1, result |-> TRUE] >>
    /\ requests[c] = 1
    /\ Len(ToolMessageIdSeq(c)) = 2

RECURSIVE LastAssistantUpTo(_, _)

\* index of the latest assistant message among the first i, 0 if none
LastAssistantUpTo(msgs, i) ==
  IF i = 0 THEN 0
  ELSE IF msgs[i].role = "assistant" THEN i
  ELSE LastAssistantUpTo(msgs, i - 1)

\* index of the assistant message that a message at index i follows
Requester(c, i) == LastAssistantUpTo(messages[c], i - 1)

\* position of the call with this id among the calls of message m
CallPosition(m, id) ==
  CHOOSE j \in 1..Len(m.tool_calls) : m.tool_calls[j].id = id

\* ------------------------------------------------------------------------
\* C18: every tool message follows an assistant message that requested its
\* tool_call_id, carries that call's name and the serialised result, and
\* the tool messages after one assistant message, which stand next to each
\* other, are in the order of its calls, at most one per call; a call has its tool message exactly when
\* its executor was invoked and has completed.
\* ------------------------------------------------------------------------
C18_ToolMessages ==
  \A c \in Calls :
    InText(c)
      => LET msgs  == messages[c]
             tools == { i \in 1..Len(msgs) : msgs[i].role = "tool" }
             done  == { execLog[c][i] : i \in 1..Len(execLog[c]) }
                        \ { f.id : f \in { g \in inflight[c] : g.kind = "exec" } }
         IN  /\ \A i \in tools :
                  /\ Requester(c, i) > 0
                  /\ LET m == msgs[Requester(c, i)]
                     IN  /\ \E j \in 1..Len(m.tool_calls) :
                               /\ m.tool_calls[j].id = msgs[i].tool_call_id
                               /\ m.tool_calls[j].function.name = msgs[i].name
                               /\ ~Unregistered(c, msgs[i].name)
                         /\ msgs[i].content = "\"sunny\""
             /\ \A i \in tools :
                  (i + 1) \in tools
                    => CallPosition(msgs[Requester(c, i)], msgs[i].tool_call_id)
                         < CallPosition(msgs[Requester(c, i)], msgs[i + 1].tool_call_id)
             /\ \A p \in AssistantIdxs(c) :
                  Cardinality({ i \in tools : Requester(c, i) = p })
                    <= Len(msgs[p].tool_calls)
             /\ pc[c] /= "threw"
                  => { msgs[i].tool_call_id : i \in tools } = done
             /\ { msgs[i].tool_call_id : i \in tools } \subseteq done

\* both calls of the first reply and the first call of the second have
\* their tool messages, the second reply standing between them
C18_Witness ==
  \E c \in Calls :
    /\ InText(c) /\ Len(messages[c]) >= 6
    /\ Cardinality(AssistantIdxs(c)) = 2
    /\ ToolMessageIdSeq(c) = << "call_1_1", "call_1_2", "call_2_1" >>
    /\ messages[c][Len(messages[c])].role = "tool"
    /\ messages[c][Len(messages[c]) - 1].role = "assistant"

\* the executor invoked last has settled without a tool message
ExecutorFailed(c) ==
  /\ Len(execLog[c]) > 0
  /\ execLog[c][Len(execLog[c])] \notin ToolMessageIds(c)
  /\ inflight[c] = {}

\* ------------------------------------------------------------------------
\* C19: when the executor of a registered tool fails, generateText throws
\* that failure: the call gets no tool message, the tool messages of the
\* calls executed before it remain, and from then on no executor is
\* invoked, no request is sent, nothing is appended and nothing is
\* returned.
\* ------------------------------------------------------------------------
C19_ExecutorFailure ==
  /\ [](\A c \in Calls :
          (InText(c) /\ ExecutorFailed(c))
            => LET failed == execLog[c][Len(execLog[c])]
                   turn   == LastReply(c)
                   ids    == [ j \in 1..Len(turn.tool_calls) |-> turn.tool_calls[j].id ]
                   after  == { i \in 1..Len(messages[c]) :
                                 \A k \in AssistantIdxs(c) : k < i }
               IN  /\ pc[c] = "threw" /\ error[c] = "tool failed"
                   /\ text[c] = "<undefined>"
                   /\ ToolMessageIdSeq(c) = SubSeq(execLog[c], 1, Len(execLog[c]) - 1)
                   /\ \E j \in 1..Len(ids) : ids[j] = failed
                   /\ \A i \in after :
                        /\ messages[c][i].role = "tool"
                        /\ CallPosition(turn, messages[c][i].tool_call_id)
                             < CallPosition(turn, failed)
                   /\ requests[c] = Cardinality(AssistantIdxs(c)))
  /\ [][\A c \in Calls :
          (InText(c) /\ ExecutorFailed(c))
            => /\ messages'[c] = messages[c]
               /\ execLog'[c] = execLog[c]
               /\ requests'[c] = requests[c]
               /\ inflight'[c] = inflight[c]
               /\ stopLog'[c] = stopLog[c]
               /\ pc'[c] = pc[c]]_vars

\* in the second turn the first executor resolved and the second failed
C19_Witness ==
  \E c \in Calls :
    /\ InText(c) /\ ExecutorFailed(c) /\ pc[c] = "threw"
    /\ execLog[c] = << "call_1_1", "call_1_2", "call_2_1", "call_2_2" >>
    /\ ToolMessageIdSeq(c) = << "call_1_1", "call_1_2", "call_2_1" >>
    /\ messages[c][Len(messages[c])].role = "tool"
    /\ requests[c] = 2

\* ------------------------------------------------------------------------
\* C20: generateProjectName never propagates an error: whenever the
\* generateText call it makes fails it returns "Untitled Project", it
\* returns the same when the generated text is empty or only whitespace,
\* and otherwise the trimmed text; its result is never the empty string.
\* ------------------------------------------------------------------------
C20_ProjectNameFallback ==
  /\ [](\A c \in Calls :
          op[c] = "generateProjectName"
            => /\ pc[c] = "done"
                    => /\ projectName[c] \notin {"", "<undefined>"}
                       /\ error[c] /= "" => projectName[c] = "Untitled Project"
                       /\ (error[c] = "" /\ text[c] \in {"", "  "})
                            => projectName[c] = "Untitled Project"
                       /\ (error[c] = "" /\ text[c] = "Done.")
                            => projectName[c] = "Done."
                       /\ (error[c] = "" /\ text[c] = " Draftly ")
                            => projectName[c] = "Draftly"
               /\ pc[c] /= "done" => projectName[c] = "<undefined>"
               /\ (error[c] /= "")
                    = (pc[c] = "threw" \/ (pc[c] = "done" /\ text[c] = "<undefined>")))
  /\ [][\A c \in Calls :
          (op[c] = "generateProjectName" /\ pc[c] \in {"threw", "returned"}
             /\ pc'[c] /= pc[c])
            => pc'[c] = "done"]_vars

\* the endpoint's tool call had malformed arguments, generateText threw a
\* SyntaxError and the fallback was returned
C20_Witness ==
  \E c \in Calls :
    /\ op[c] = "generateProjectName" /\ pc[c] = "done"
    /\ error[c] = "SyntaxError"
    /\ projectName[c] = "Untitled Project"

\* ------------------------------------------------------------------------
\* C14: every generateText call eventually ends, returning or throwing,
\* whatever the endpoint replies and whatever stopWhen answers, when every
\* round trip and every executor completes.
\* ------------------------------------------------------------------------
C14_Terminates ==
  <>(\A c \in Calls : InText(c) => pc[c] \in {"returned", "threw"})

\* a call that ended only at the ceiling, stopWhen having said no ten times
C14_Witness ==
  \E c \in Calls :
    /\ InText(c) /\ pc[c] = "returned"
    /\ requests[c] = 10
    /\ Len(stopLog[c]) = 10
    /\ \A i \in 1..Len(stopLog[c]) : ~stopLog[c][i].result
    /\ text[c] = ""

\* everything call c owns
Local(c) ==
  << op[c], options[c], endpoint[c], messages[c], stepCount[c], shouldStop[c],
     pc[c], callIdx[c], inflight[c], requests[c], response[c], stopLog[c],
     execLog[c], text[c], object[c], error[c], sent[c], jsonSchema[c],
     projectName[c] >>

\* ------------------------------------------------------------------------
\* C12: generateText calls in flight together do not interfere: a step of
\* one call changes nothing of another, and the transcript, the step
\* counter, the number of requests and the result of each call are what its
\* own options and its own endpoint's replies make them, as when it runs
\* alone.
\* ------------------------------------------------------------------------
C12_NoInterference ==
  /\ [](\A c \in Calls :
          InText(c)
            => LET n     == Cardinality(AssistantIdxs(c))
                   sys   == options[c].system
                   start == (IF sys /= Undefined /\ sys /= ""
                               THEN << [role |-> "system", content |-> sys] >>
                               ELSE << >>)
                            \o << [role |-> "user", content |-> options[c].prompt] >>
                   last  == messages[c][Len(messages[c])]
               IN  /\ IsPrefix(start, messages[c])
                   /\ stepCount[c] = n
                   /\ requests[c] \in {n, n + 1}
                   /\ \A a \in 1..n :
                        LET m == NthReply(c, a)
                        IN  RequestsTools(m)
                              => /\ Len(m.tool_calls) = Len(endpoint[c].toolReply.calls)
                                 /\ \A j \in 1..Len(m.tool_calls) :
                                      /\ m.tool_calls[j].function = endpoint[c].toolReply.calls[j]
                                      /\ m.tool_calls[j].id
                                           = "call_" \o ToString(a) \o "_" \o ToString(j)
                   /\ \A i \in 1..Len(stopLog[c]) :
                        /\ options[c].stopWhen.kind = "stepCountIs"
                        /\ stopLog[c][i].arg = i
                        /\ stopLog[c][i].result = (i >= options[c].stopWhen.count)
                   /\ ToolMessageIds(c) \subseteq ExecutedIds(c)
                   /\ pc[c] = "returned"
                        => text[c] = IF last.role = "assistant" THEN last.content ELSE ""
                   /\ pc[c] /= "returned" => text[c] = "<undefined>")
  /\ [][\A c, d \in Calls :
          (c /= d /\ Local(c)' /= Local(c)) => Local(d)' = Local(d)]_vars

\* two calls in flight at once: one awaiting the executor of its second
\* step, another awaiting the reply to its first request
C12_Witness ==
  \E c, d \in Calls :
    /\ c /= d /\ InText(c) /\ InText(d)
    /\ pc[c] = "exec" /\ stepCount[c] = 2
    /\ pc[d] = "fetch" /\ stepCount[d] = 0
    /\ inflight[c] /= {} /\ inflight[d] /= {}

====
